---- MODULE Spec2Model ----
(***************************************************************************)
(* Model of the two GPG key expiry notification jobs:                      *)
(*   gpg-keys-lambda.py  - "single" variant: one mail per notifiable key,  *)
(*                         exact-or-soon policy, counters processed /      *)
(*                         notified / errors, returns a status record.     *)
(*   lambda-testing.py   - "consolidated" variant: one mail per recipient, *)
(*                         window policy, bundles in recipient_keys.       *)
(* A text (a Python str) is a sequence of tokens; a token is a record      *)
(* [k, v].  Splitting, stripping, upper-casing and date parsing work on    *)
(* the tokens.  A date is a day number, a datetime a number of ticks       *)
(* (TicksPerDay ticks to the day).                                         *)
(***************************************************************************)
EXTENDS Integers, Sequences, FiniteSets, TLC

VARIABLES variant, manifest, now, pc, today, idx, processed, notified, errors,
          recipient_keys, call, cur, attempt, sends, calls, result

vars == <<variant, manifest, now, pc, today, idx, processed, notified, errors,
          recipient_keys, call, cur, attempt, sends, calls, result>>

\* ------------------------------------------------------------------ bounds
\* Largest number of data rows of a manifest.
MaxRows == 2
\* Resolution of the clock: instants of one calendar day (tick 0 is midnight).
TicksPerDay == 2

\* ------------------------------------------------------------------ texts
Tok(k, v) == [k |-> k, v |-> v]
Sp == Tok("sp", 0)
Comma == Tok(",", 0)
\* An e-mail address: Addr(1) is a@x.com, Addr(2) is b@x.com.
Addr(i) == Tok("addr", i)
\* A date text for day d written DD-MM-YYYY, and the same day written YYYY-MM-DD.
Dmy(d) == Tok("dmy", d)
Ymd(d) == Tok("ymd", d)
\* The text N/A in one of its letter cases: 0 is "N/A", 1 is "n/a", 2 is "N/a".
Na(c) == Tok("na", c)
\* The name of the key of row i.
Name(i) == Tok("key", i)

\* Python's None, as a value a text can be compared with.
None == <<Tok("None", 0)>>
\* The literal 'unknown'.
unknown == <<Tok("unknown", 0)>>
\* The literal ''.
Empty == <<>>

\* bool(x) of a text or None.
Truthy(x) == x # None /\ x # Empty
\* a or b.
Or(a, b) == IF Truthy(a) THEN a ELSE b
\* row.get(name) and row.get(name, default).
Get(row, name) == IF name \in DOMAIN row THEN row[name] ELSE None
GetDefault(row, name, default) == IF name \in DOMAIN row THEN row[name] ELSE default

RECURSIVE LStrip(_)
LStrip(s) == IF s # <<>> /\ Head(s) = Sp THEN LStrip(Tail(s)) ELSE s
RECURSIVE RStrip(_)
RStrip(s) ==
  IF s # <<>> /\ s[Len(s)] = Sp THEN RStrip(SubSeq(s, 1, Len(s) - 1)) ELSE s
\* str.strip()
Strip(s) == RStrip(LStrip(s))

\* str.upper(): only the letters of N/A have a case here.
UpperTok(t) == IF t.k = "na" THEN Na(0) ELSE t
Upper(s) == [i \in 1..Len(s) |-> UpperTok(s[i])]

\* str.split(','): the segments between the commas, empty ones included.
RECURSIVE SplitFrom(_, _, _)
SplitFrom(s, i, seg) ==
  IF i > Len(s) THEN <<seg>>
  ELSE IF s[i] = Comma THEN <<seg>> \o SplitFrom(s, i + 1, <<>>)
  ELSE SplitFrom(s, i + 1, Append(seg, s[i]))
Split(s) == SplitFrom(s, 1, <<>>)

\* datetime.strptime(s, '%d-%m-%Y'): the text must be exactly one DD-MM-YYYY
\* date, with nothing before or after it; anything else raises ValueError.
StrptimeOk(s) == Len(s) = 1 /\ s[1].k = "dmy"
StrptimeDay(s) == s[1].v

\* timedelta.days: whole days, rounded towards minus infinity.
DeltaDays(ticks) == ticks \div TicksPerDay

\* ------------------------------------------------------------------ manifest
\* The headers the expiry column of a manifest may carry: the three aliases
\* of the interface, one of them padded with blanks, and a header that is none
\* of them.
ExpiryHeaders ==
  {"GPG_Key_Expiry", "GPG_key_expiry", "expiry_date", " GPG_Key_Expiry ", "Expiry"}

\* The data rows a manifest may hold: the expiry cell and the recipients cell.
\* Day 0 is the day of the run.
RowSamples ==
  { [expiry |-> <<Dmy(14)>>, email |-> <<Addr(1)>>],
    [expiry |-> <<Dmy(2)>>, email |-> <<Addr(1), Comma, Sp, Addr(2), Sp, Comma>>],
    [expiry |-> <<Dmy(5)>>, email |-> <<Addr(1), Comma, Addr(1)>>],
    [expiry |-> <<Sp, Na(1), Sp>>, email |-> <<Addr(2)>>],
    [expiry |-> <<Ymd(14)>>, email |-> <<Addr(1)>>],
    [expiry |-> <<Dmy(-1)>>, email |-> <<Addr(2)>>],
    [expiry |-> <<>>, email |-> <<Addr(1)>>],
    [expiry |-> <<Dmy(15)>>, email |-> <<Addr(2)>>],
    [expiry |-> <<Na(0)>>, email |-> <<Addr(1)>>] }

Manifests ==
  { [header |-> h, rows |-> r] :
      h \in ExpiryHeaders,
      r \in UNION { [1..n -> RowSamples] : n \in 0..MaxRows } }

\* csv.DictReader: row i as a mapping from the header names to the cells.
DictRow(m, i) ==
  ("GPG_Private_Key" :> <<Name(i)>>) @@ (m.header :> m.rows[i].expiry)
    @@ ("PIC_Email" :> m.rows[i].email)

\* k.strip() of a header name.
StripName(h) == IF h = " GPG_Key_Expiry " THEN "GPG_Key_Expiry" ELSE h
\* {k.strip(): v for k, v in row.items()}
StripKeys(row) ==
  [k \in {StripName(h) : h \in DOMAIN row} |->
     row[CHOOSE h \in DOMAIN row : StripName(h) = k]]

\* ------------------------------------------------------------------ state
NoCall == [recipients |-> <<>>, key_name |-> None, expiry_date |-> None,
           days_remaining |-> 0]
\* What the handler returned: nothing yet ("unset"), None ("none") or a
\* response record with its status code and body.
NoResult == [kind |-> "unset", statusCode |-> 0, body |-> "", processed |-> 0,
             notified |-> 0]

Init ==
  /\ variant \in {"single", "consolidated"}
  /\ manifest \in Manifests
  /\ now \in 0..(TicksPerDay - 1)
  /\ pc = "fetch"
  /\ today = 0
  /\ idx = 0
  /\ processed = 0
  /\ notified = 0
  /\ errors = 0
  /\ recipient_keys = <<>>
  /\ call = NoCall
  /\ cur = 0
  /\ attempt = 0
  /\ sends = <<>>
  /\ calls = <<>>
  /\ result = NoResult

\* ------------------------------------------------------------------ retry
\* A retry budget one too large.
max_retries_more == 3 + 1
max_retries == 3

\* One try of ses.send_email for unit u (a row of the single job, a position
\* of recipient_keys in the consolidated job) as the transport saw it.
Attempt(u, to, msg, ok) == [unit |-> u, to |-> to, msg |-> msg, ok |-> ok]
\* The outcome of one call of a sender, as its caller saw it.
Call(u, res) == [unit |-> u, result |-> res]

\* ------------------------------------------------------------------ single job
\* gpg-keys-lambda.py, lines 46-75: what the body of the row loop does with
\* one row, up to the call of send_formatted_email.
\*   "continue": no expiry date, the row is left;
\*   "raise":    an exception reaches the row's except clause;
\*   "send":     the row is notifiable and send_formatted_email is called;
\*   "quiet":    the row is evaluated and not notifiable.
SingleDays(expiry_date_str, t) ==
  DeltaDays(StrptimeDay(expiry_date_str) * TicksPerDay - t)

SinglePolicy(days_until_expiry) ==
  days_until_expiry = 14 \/ (1 <= days_until_expiry /\ days_until_expiry <= 3)

SingleRecipients(email_column) ==
  LET segs == Split(email_column) IN [i \in 1..Len(segs) |-> Strip(segs[i])]

SingleEval(row, t) ==
  LET key_name == Or(Or(Get(row, "GPG_Private_Key"), Get(row, "GPG_private_key")),
                     unknown)
      expiry_date_str == Or(Or(Get(row, "GPG_Key_Expiry"), Get(row, "GPG_key_expiry")),
                            Get(row, "expiry_date"))
      email_column == Or(Get(row, "PIC_Email"), GetDefault(row, "PIC_email", Empty))
      out(o, d, r) == [outcome |-> o, key_name |-> key_name,
                       expiry_date |-> expiry_date_str, days |-> d, recipients |-> r]
  IN IF ~Truthy(expiry_date_str) THEN out("continue", 0, <<>>)
     ELSE IF ~StrptimeOk(expiry_date_str) THEN out("raise", 0, <<>>)
     ELSE LET days_until_expiry == SingleDays(expiry_date_str, t) IN
          IF ~SinglePolicy(days_until_expiry) THEN out("quiet", days_until_expiry, <<>>)
          ELSE IF email_column = None THEN out("raise", days_until_expiry, <<>>)
          ELSE out("send", days_until_expiry, SingleRecipients(email_column))

\* The message of send_formatted_email: the subject carries the key name, both
\* bodies carry the key name, the expiry text and the days remaining.
SingleMessage(c) ==
  [subject |-> c.key_name,
   html |-> <<[key_name |-> c.key_name, expiry_date |-> c.expiry_date,
               days |-> c.days_remaining]>>,
   text |-> <<[key_name |-> c.key_name, expiry_date |-> c.expiry_date,
               days |-> c.days_remaining]>>]

\* Lines 18-38: the manifest is fetched and decoded, the clock is read.
SingleFetchOk ==
  /\ variant = "single" /\ pc = "fetch"
  /\ pc' = "rows"
  /\ today' = now
  /\ UNCHANGED <<variant, manifest, now, idx, processed, notified, errors,
                 recipient_keys, call, cur, attempt, sends, calls, result>>

\* Lines 18-21 raise; lines 91-97 return the 500 response.
SingleFetchFail ==
  /\ variant = "single" /\ pc = "fetch"
  /\ pc' = "fatal"
  /\ result' = [kind |-> "response", statusCode |-> 500, body |-> "error",
                processed |-> 0, notified |-> 0]
  /\ UNCHANGED <<variant, manifest, now, today, idx, processed, notified, errors,
                 recipient_keys, call, cur, attempt, sends, calls>>

\* The except clause of the row is missing: the exception reaches the outer one.
SingleRowNext_escape(outcome) ==
  IF outcome = "send" THEN "send" ELSE IF outcome = "raise" THEN "fatal" ELSE "rows"

\* Where the row loop goes after the body of line 44-75 ended with the given
\* outcome: into send_formatted_email, or on to the next row (the continue of
\* line 51, the end of the body, or the except clause of lines 80-83).
SingleRowNext(outcome) == IF outcome = "send" THEN "send" ELSE "rows"

\* Lines 41-83 for the next row, up to the call of send_formatted_email.
SingleRow ==
  /\ variant = "single" /\ pc = "rows" /\ idx < Len(manifest.rows)
  /\ LET e == SingleEval(DictRow(manifest, idx + 1), today) IN
       /\ idx' = idx + 1
       /\ processed' = processed + 1
       /\ errors' = IF e.outcome = "raise" THEN errors + 1 ELSE errors
       /\ pc' = SingleRowNext(e.outcome)
       /\ call' = IF e.outcome = "send"
                  THEN [recipients |-> e.recipients, key_name |-> e.key_name,
                        expiry_date |-> e.expiry_date, days_remaining |-> e.days]
                  ELSE call
       /\ attempt' = 0
  /\ UNCHANGED <<variant, manifest, now, today, notified, recipient_keys, cur,
                 sends, calls, result>>

\* The last failure is swallowed instead of raised.
SingleAfterTry_swallow(ok, a) ==
  IF ok THEN "return" ELSE IF a < max_retries - 1 THEN "retry" ELSE "return"

\* The step of the retry loop after a try with outcome ok, lines 160-182:
\* "return" on success, "retry" after a failure that is not the last try,
\* "raise" after the last one.
SingleAfterTry(ok, a) ==
  IF ok THEN "return" ELSE IF a < max_retries - 1 THEN "retry" ELSE "raise"

\* Lines 160-182 and 77-83: one try of ses.send_email for the row in hand.
SingleTry ==
  /\ variant = "single" /\ pc = "send"
  /\ \E ok \in BOOLEAN :
       LET step == SingleAfterTry(ok, attempt) IN
       /\ sends' = Append(sends, Attempt(idx, call.recipients, SingleMessage(call), ok))
       /\ attempt' = IF step = "retry" THEN attempt + 1 ELSE 0
       /\ pc' = IF step = "retry" THEN "send" ELSE "rows"
       /\ calls' = IF step = "retry" THEN calls
                   ELSE Append(calls, Call(idx, IF step = "return" THEN "success"
                                                ELSE "failure"))
       /\ notified' = IF step = "return" THEN notified + 1 ELSE notified
       /\ errors' = IF step = "raise" THEN errors + 1 ELSE errors
       /\ call' = IF step = "retry" THEN call ELSE NoCall
  /\ UNCHANGED <<variant, manifest, now, today, idx, processed, recipient_keys,
                 cur, result>>

\* Lines 85-89: the rows are exhausted, the summary is returned.
SingleSummary ==
  /\ variant = "single" /\ pc = "rows" /\ idx = Len(manifest.rows)
  /\ pc' = "summary"
  /\ result' = [kind |-> "response", statusCode |-> 200, body |-> "summary",
                processed |-> processed, notified |-> notified]
  /\ UNCHANGED <<variant, manifest, now, today, idx, processed, notified, errors,
                 recipient_keys, call, cur, attempt, sends, calls>>

\* ------------------------------------------------------------------ consolidated job
ConsDays(expiry_date_str, t) == StrptimeDay(expiry_date_str) - t

ConsPolicy(days_until_expiry) == 0 <= days_until_expiry /\ days_until_expiry <= 30

\* Lines 55-59: the stripped, non-empty segments of the stripped field.
ConsRecipients(email_column) ==
  LET email == Strip(email_column)
      segs == IF Truthy(email) THEN Split(email) ELSE <<>>
      stripped == [i \in 1..Len(segs) |-> Strip(segs[i])]
  IN SelectSeq(stripped, LAMBDA r : Truthy(r))

\* lambda-testing.py, lines 35-65: what the body of the row loop does with one
\* row.  "continue", "raise" and "quiet" as in the single job; "bundle": the
\* row is notifiable and is appended to the bundle of each of its recipients.
ConsEval(raw, t) ==
  LET row == StripKeys(raw)
      key_name == Or(Or(Get(row, "GPG_Private_Key"), Get(row, "GPG_private_key")),
                     unknown)
      feed_name == Or(Or(Get(row, "Feed_Name"), Get(row, "feed_name")), unknown)
      expiry_date_str == Or(Or(Get(row, "GPG_Key_Expiry"), Get(row, "gpg_key_expiry")),
                            Get(row, "expiry_date"))
      email_column == Or(Get(row, "PIC_Email"), GetDefault(row, "PIC_email", Empty))
      out(o, d, r) == [outcome |-> o, key_name |-> key_name, feed_name |-> feed_name,
                       expiry_date |-> expiry_date_str, days |-> d, recipients |-> r]
  IN IF ~Truthy(expiry_date_str) \/ Upper(Strip(expiry_date_str)) = <<Na(0)>>
     THEN out("continue", 0, <<>>)
     ELSE IF ~StrptimeOk(expiry_date_str) THEN out("raise", 0, <<>>)
     ELSE LET days_until_expiry == ConsDays(expiry_date_str, t) IN
          IF ~ConsPolicy(days_until_expiry) THEN out("quiet", days_until_expiry, <<>>)
          ELSE IF email_column = None THEN out("raise", days_until_expiry, <<>>)
          ELSE out("bundle", days_until_expiry, ConsRecipients(email_column))

\* The entry line 60-65 appends for an evaluated row.
Entry(e) == [feed_name |-> e.feed_name, key_name |-> e.key_name,
             expiry_date |-> e.expiry_date, days_until_expiry |-> e.days]

\* recipient_keys.setdefault(recipient, []).append(entry): recipient_keys is a
\* dict, which keeps its keys in the order of their first insertion.
SetDefaultAppend(rk, recipient, entry) ==
  IF \E j \in 1..Len(rk) : rk[j].recipient = recipient
  THEN [j \in 1..Len(rk) |->
          IF rk[j].recipient = recipient
          THEN [rk[j] EXCEPT !.keys = Append(@, entry)] ELSE rk[j]]
  ELSE Append(rk, [recipient |-> recipient, keys |-> <<entry>>])

\* Lines 57-65: the loop over the recipients of one row.
RECURSIVE AddAll(_, _, _)
AddAll(rk, recipients, entry) ==
  IF recipients = <<>> THEN rk
  ELSE AddAll(SetDefaultAppend(rk, Head(recipients), entry), Tail(recipients), entry)

\* Lines 93-103 and 143-145: one table row and one text line per key of the
\* bundle, numbered by enumerate(key_data, start=1).
ConsMessage(key_data) ==
  [subject |-> <<Tok("GPG Key Expiration ALERT-Action Required", 0)>>,
   html |-> [i \in 1..Len(key_data) |->
               [index |-> i, feed_name |-> key_data[i].feed_name,
                key_name |-> key_data[i].key_name,
                expiry_date |-> key_data[i].expiry_date,
                days |-> key_data[i].days_until_expiry]],
   text |-> [i \in 1..Len(key_data) |->
               [index |-> i, feed_name |-> key_data[i].feed_name,
                key_name |-> key_data[i].key_name,
                expiry_date |-> key_data[i].expiry_date,
                days |-> key_data[i].days_until_expiry]]]

\* Lines 16-29: the manifest is fetched and decoded, the date is read.
ConsFetchOk ==
  /\ variant = "consolidated" /\ pc = "fetch"
  /\ pc' = "rows"
  /\ today' = now \div TicksPerDay
  /\ UNCHANGED <<variant, manifest, now, idx, processed, notified, errors,
                 recipient_keys, call, cur, attempt, sends, calls, result>>

\* Lines 17-18 raise; lines 86-87 print and the handler returns None.
ConsFetchFail ==
  /\ variant = "consolidated" /\ pc = "fetch"
  /\ pc' = "fatal"
  /\ result' = [NoResult EXCEPT !.kind = "none"]
  /\ UNCHANGED <<variant, manifest, now, today, idx, processed, notified, errors,
                 recipient_keys, call, cur, attempt, sends, calls>>

\* Lines 32-69 for the next row.  This job keeps no error counter: the except
\* clause of line 68 only prints, and errors stays as initialised.
ConsRow ==
  /\ variant = "consolidated" /\ pc = "rows" /\ idx < Len(manifest.rows)
  /\ LET e == ConsEval(DictRow(manifest, idx + 1), today) IN
       /\ idx' = idx + 1
       /\ recipient_keys' = IF e.outcome = "bundle"
                            THEN AddAll(recipient_keys, e.recipients, Entry(e))
                            ELSE recipient_keys
       /\ processed' = IF e.outcome \in {"bundle", "quiet"} THEN processed + 1
                       ELSE processed
  /\ UNCHANGED <<variant, manifest, now, today, pc, notified, errors, call, cur,
                 attempt, sends, calls, result>>

\* Lines 72-74: the rows are exhausted, the loop over recipient_keys starts.
ConsRowsEnd ==
  /\ variant = "consolidated" /\ pc = "rows" /\ idx = Len(manifest.rows)
  /\ pc' = "deliver"
  /\ cur' = 1
  /\ notified' = 0
  /\ attempt' = 0
  /\ UNCHANGED <<variant, manifest, now, today, idx, processed, errors,
                 recipient_keys, call, sends, calls, result>>

\* The step of the retry loop after a try with outcome ok, lines 150-169:
\* "return1" on success, "retry" after a failure that is not the last try,
\* "return0" after the last one.
ConsAfterTry(ok, a) ==
  IF ok THEN "return1" ELSE IF a + 1 < max_retries THEN "retry" ELSE "return0"

\* Lines 74-79 and 149-169: one try of ses.send_email for the bundle in hand.
ConsTry ==
  /\ variant = "consolidated" /\ pc = "deliver" /\ cur <= Len(recipient_keys)
  /\ \E ok \in BOOLEAN :
       LET step == ConsAfterTry(ok, attempt)
           b == recipient_keys[cur] IN
       /\ sends' = Append(sends, Attempt(cur, <<b.recipient>>, ConsMessage(b.keys), ok))
       /\ attempt' = IF step = "retry" THEN attempt + 1 ELSE 0
       /\ cur' = IF step = "retry" THEN cur ELSE cur + 1
       /\ calls' = IF step = "retry" THEN calls
                   ELSE Append(calls, Call(cur, IF step = "return1" THEN "success"
                                                ELSE "failure"))
       /\ notified' = IF step = "return1" THEN notified + 1 ELSE notified
  /\ UNCHANGED <<variant, manifest, now, today, pc, idx, processed, errors,
                 recipient_keys, call, result>>

\* Line 81: every bundle was handled, the summary is printed; the handler
\* has no return statement and returns None.
ConsSummary ==
  /\ variant = "consolidated" /\ pc = "deliver" /\ cur > Len(recipient_keys)
  /\ pc' = "summary"
  /\ result' = [NoResult EXCEPT !.kind = "none"]
  /\ UNCHANGED <<variant, manifest, now, today, idx, processed, notified, errors,
                 recipient_keys, call, cur, attempt, sends, calls>>

\* ------------------------------------------------------------------ specification
Next ==
  \/ SingleFetchOk
  \/ SingleFetchFail
  \/ SingleRow
  \/ SingleTry
  \/ SingleSummary
  \/ ConsFetchOk
  \/ ConsFetchFail
  \/ ConsRow
  \/ ConsRowsEnd
  \/ ConsTry
  \/ ConsSummary

Spec == Init /\ [][Next]_vars

\* ------------------------------------------------------------------ properties
\* The header aliases the interface accepts for the expiry column.
ExpiryAliases == {"GPG_Key_Expiry", "GPG_key_expiry", "expiry_date"}

\* The calendar day of the run.
RunDay == now \div TicksPerDay

\* The tries the transport saw for unit u, in order.
UnitAttempts(u) == SelectSeq(sends, LAMBDA a : a.unit = u)
Sent(u) == \E k \in 1..Len(sends) : sends[k].unit = u

\* The text is N/A in some letter case, with or without blanks around it.
IsNaText(s) == LET t == Strip(s) IN Len(t) = 1 /\ t[1].k = "na"

\* The trimmed, non-empty comma-separated segments of a recipients field.
TrimmedSegments(field) ==
  LET segs == Split(field)
      trimmed == [i \in 1..Len(segs) |-> Strip(segs[i])]
  IN SelectSeq(trimmed, LAMBDA r : r # <<>>)

Range(f) == {f[i] : i \in DOMAIN f}

\* What the job in hand makes of manifest row i.
Eval(i) ==
  IF variant = "single" THEN SingleEval(DictRow(manifest, i), today)
  ELSE ConsEval(DictRow(manifest, i), today)

\* The row loop takes its next row.
RowStep == pc = "rows" /\ idx < Len(manifest.rows) /\ idx' = idx + 1

\* C1: in the single-key job, every row taken whose expiry date is the day 14
\* days after the day of the run has daysUntilExpiry 14, whatever the time of
\* day of the run, and send_formatted_email is invoked for it.
C1_Day14Notified ==
  \A i \in 1..idx :
    (variant = "single" /\ manifest.header \in ExpiryAliases
       /\ manifest.rows[i].expiry = <<Dmy(RunDay + 14)>>)
    => /\ Eval(i).days = 14
       /\ (i = idx /\ pc = "send") \/ Sent(i)

\* C2: in both jobs, taking a row whose expiry field is N/A (any letter case,
\* any blanks around it) sends nothing, adds no bundle entry, does not go
\* through the row's except clause and leaves the error counter alone.
C2_NaRowIsNoError ==
  [][(RowStep /\ manifest.header \in ExpiryAliases
        /\ IsNaText(manifest.rows[idx + 1].expiry))
     => /\ Eval(idx + 1).outcome # "raise"
        /\ errors' = errors
        /\ pc' = "rows"
        /\ sends' = sends
        /\ recipient_keys' = recipient_keys]_vars

\* The recipients the bundles hold an entry of row i for.
BundledFor(i) ==
  { recipient_keys[j].recipient : j \in
      { j \in 1..Len(recipient_keys) :
          \E n \in 1..Len(recipient_keys[j].keys) :
            recipient_keys[j].keys[n].key_name = <<Name(i)>> } }

\* C3: in both jobs, the addresses of a notifiable row are exactly the trimmed
\* non-empty segments of its recipients field: they are the addresses of each
\* send of the single-key job, and the bundle keys of the consolidated job; no
\* send carries an empty address.
C3_RecipientsTrimmedNonEmpty ==
  /\ \A k \in 1..Len(sends) : \A j \in 1..Len(sends[k].to) : sends[k].to[j] # <<>>
  /\ variant = "single" =>
       \A k \in 1..Len(sends) :
         sends[k].to = TrimmedSegments(manifest.rows[sends[k].unit].email)
  /\ variant = "consolidated" =>
       \A i \in 1..idx :
         Eval(i).outcome = "bundle" =>
           BundledFor(i) = Range(TrimmedSegments(manifest.rows[i].email))

\* The calls of a sender that ended with the given result.
CallsWith(res) == {c \in 1..Len(calls) : calls[c].result = res}
Returned(u) == \E c \in 1..Len(calls) : calls[c].unit = u

\* C4: for one unit of work (one key of the single-key job, one recipient of
\* the consolidated job) no try follows a success and there are at most 3
\* tries; the sender reports failure exactly when 3 tries were made and all
\* failed, and success exactly when its last try, the k-th with k <= 3,
\* succeeded.  Only a reported success counts as a notification.
C4_ThreeTriesThenFailure ==
  /\ \A k \in 1..Len(sends) :
       LET att == UnitAttempts(sends[k].unit) IN
       /\ Len(att) <= 3
       /\ \A j \in 1..(Len(att) - 1) : ~att[j].ok
       /\ (att[Len(att)].ok \/ Len(att) = 3) <=> Returned(sends[k].unit)
  /\ \A c \in 1..Len(calls) :
       LET att == UnitAttempts(calls[c].unit) IN
       /\ Len(att) >= 1
       /\ \A d \in 1..Len(calls) : calls[d].unit = calls[c].unit => d = c
       /\ calls[c].result = "failure" <=>
            (Len(att) = 3 /\ \A j \in 1..3 : ~att[j].ok)
       /\ calls[c].result = "success" <=> att[Len(att)].ok
  /\ notified = Cardinality(CallsWith("success"))
  /\ variant = "single" => errors >= Cardinality(CallsWith("failure"))

\* One unit failed on all 3 tries, another succeeded on its second try.
C4_Witness ==
  /\ \E c \in CallsWith("failure") : Len(UnitAttempts(calls[c].unit)) = 3
  /\ \E c \in CallsWith("success") : Len(UnitAttempts(calls[c].unit)) = 2

\* C5: a failure of a row or of a recipient never ends the run.  The
\* top-level failure path is entered only before the first row; the loops stay
\* within the manifest and the bundles, so that a next step exists until the
\* summary; each row the single-key job finds notifiable and each bundle of
\* the consolidated job gets tries of its own; at the summary every manifest
\* row was taken and every bundle was handled.
C5_FailuresDoNotAbort ==
  /\ pc = "fatal" => idx = 0 /\ sends = <<>>
  /\ pc \in {"fetch", "rows", "send", "deliver", "summary", "fatal"}
  /\ idx <= Len(manifest.rows)
  /\ pc = "send" => variant = "single"
  /\ pc = "deliver" => variant = "consolidated" /\ cur <= Len(recipient_keys) + 1
  /\ variant = "single" =>
       \A i \in 1..idx :
         Eval(i).outcome = "send" => Sent(i) \/ (i = idx /\ pc = "send")
  /\ (variant = "consolidated" /\ pc \in {"deliver", "summary"}) =>
       \A j \in 1..Len(recipient_keys) : j < cur => Sent(j)
  /\ pc = "summary" =>
       /\ idx = Len(manifest.rows)
       /\ variant = "consolidated" => cur = Len(recipient_keys) + 1

\* The run reached its summary although a unit used up its tries, and the
\* unit after it was tried.
C5_Witness ==
  /\ pc = "summary"
  /\ \E c \in CallsWith("failure") : Sent(calls[c].unit + 1)

\* The recipients the manifest names, and the bundle of one of them.
AllRecipients ==
  UNION { Range(TrimmedSegments(manifest.rows[i].email)) :
            i \in 1..Len(manifest.rows) }
Bundle(r) ==
  IF \E j \in 1..Len(recipient_keys) : recipient_keys[j].recipient = r
  THEN recipient_keys[CHOOSE j \in 1..Len(recipient_keys) :
                        recipient_keys[j].recipient = r].keys
  ELSE <<>>
\* The rows found notifiable that list r among their recipients, in manifest order.
RowsFor(r) ==
  SelectSeq([i \in 1..Len(manifest.rows) |-> i],
            LAMBDA i : /\ Eval(i).outcome = "bundle"
                       /\ r \in Range(TrimmedSegments(manifest.rows[i].email)))

\* C6: in the consolidated job, once all rows are taken, the bundle of each
\* recipient r holds exactly one entry per notifiable row that lists r, in
\* manifest order, and every message for r has one table row and one text
\* line per bundle entry, numbered 1, 2, ... in that order.
C6_OneEntryPerRowInOrder ==
  (variant = "consolidated" /\ pc \in {"deliver", "summary"}) =>
    /\ \A r \in AllRecipients :
         [n \in 1..Len(Bundle(r)) |-> Bundle(r)[n].key_name]
           = [n \in 1..Len(RowsFor(r)) |-> <<Name(RowsFor(r)[n])>>]
    /\ \A j \in 1..Len(recipient_keys) : recipient_keys[j].recipient \in AllRecipients
    /\ \A k \in 1..Len(sends) :
         LET keys == recipient_keys[sends[k].unit].keys
             msg == sends[k].msg IN
         /\ sends[k].to = <<recipient_keys[sends[k].unit].recipient>>
         /\ Len(msg.html) = Len(keys) /\ Len(msg.text) = Len(keys)
         /\ \A n \in 1..Len(keys) :
              /\ msg.html[n].index = n /\ msg.html[n].key_name = keys[n].key_name
              /\ msg.text[n].index = n /\ msg.text[n].key_name = keys[n].key_name

\* The text is there, is not N/A and is not a DD-MM-YYYY date.
Unparseable(s) == Truthy(s) /\ ~IsNaText(s) /\ ~StrptimeOk(s)

\* C7: in both jobs, taking a row whose expiry text is not parseable as
\* DD-MM-YYYY adds exactly one to the error counter, sends nothing, adds no
\* bundle entry, and the loop goes on to the next row.
C7_BadDateCountsOneError ==
  [][(RowStep /\ manifest.header \in ExpiryAliases
        /\ Unparseable(manifest.rows[idx + 1].expiry))
     => /\ errors' = errors + 1
        /\ sends' = sends
        /\ recipient_keys' = recipient_keys
        /\ pc' = "rows"]_vars

\* C8: in both jobs, when the fetch fails no row is taken, nothing is sent
\* and the handler returns a failure response (500) with a diagnostic; when it
\* succeeds the handler returns a success response with the counters.
C8_TerminalStatus ==
  /\ pc = "fatal" =>
       /\ idx = 0 /\ sends = <<>>
       /\ result.kind = "response" /\ result.statusCode = 500
       /\ result.body = "error"
  /\ pc = "summary" =>
       /\ result.kind = "response" /\ result.statusCode = 200
       /\ result.body = "summary"

\* C9: in both jobs, a row with a DD-MM-YYYY expiry under any of the three
\* header aliases is evaluated, not left as having no expiry date.
C9_AliasesResolved ==
  [][(RowStep /\ manifest.header \in ExpiryAliases
        /\ StrptimeOk(manifest.rows[idx + 1].expiry))
     => /\ Eval(idx + 1).outcome # "continue"
        /\ variant = "consolidated" => processed' = processed + 1]_vars

\* The rows of the single-key job a send succeeded for, and those whose
\* processing raised: the date did not parse, or all 3 tries failed.
NotifiedRows == {i \in 1..idx : \E k \in 1..Len(sends) : sends[k].unit = i /\ sends[k].ok}
ErrorRows ==
  {i \in 1..idx :
     \/ Eval(i).outcome = "raise"
     \/ Len(UnitAttempts(i)) = 3 /\ \A j \in 1..3 : ~UnitAttempts(i)[j].ok}

\* C10: in the single-key job notified + errors <= processed at every point;
\* a row counts in at most one of notified and errors; notified is the number
\* of rows with a successful send, errors the number of rows whose processing
\* raised, processed the number of rows taken, all of them at the summary.
C10_CountersAccount ==
  variant = "single" =>
    /\ notified + errors <= processed
    /\ processed = idx
    /\ NotifiedRows \cap ErrorRows = {}
    /\ notified = Cardinality(NotifiedRows)
    /\ errors = Cardinality(ErrorRows)
    /\ pc = "summary" =>
         /\ processed = Len(manifest.rows)
         /\ result.processed = processed /\ result.notified = notified

\* A run of the single-key job ended with one row notified and one in error
\* after its 3 tries.
C10_Witness ==
  /\ variant = "single" /\ pc = "summary"
  /\ notified = 1 /\ errors = 1
  /\ CallsWith("failure") # {}

====
